---- MODULE Spec2Model ----
(***************************************************************************)
(* Portfolio_Calculator.py: the deterministic base-case projection, the    *)
(* Monte Carlo simulation and the statistics computed from its matrix.     *)
(*                                                                         *)
(* Money is fixed point: one unit is a tenth of a cent (1 dollar = 1000),  *)
(* so that round(x, 2) is a real conversion.  Rates are whole percents, a  *)
(* multiplication by (1 + rate) is a multiplication by (100 + rate) / 100. *)
(* The script runs top to bottom on every interaction; only numpy's global *)
(* generator outlives a run.                                               *)
(***************************************************************************)
EXTENDS Integers, Sequences, FiniteSets, TLC

VARIABLES
    initial_balance,      \* line 140
    annual_return,        \* line 141, percent
    years,                \* line 142
    annual_contribution,  \* line 143
    volatility,           \* line 147, percent
    simulations,          \* line 149
    pc,                   \* position of the script
    year,                 \* loop variable of lines 157 and 186: next value of the range
    balance,              \* line 153
    total_contributions,  \* line 154
    data,                 \* line 155
    total_invested,       \* lines 163 and 175
    rng,                  \* numpy's global generator: position in its output stream
    stream,               \* the standard-normal deviates the generator yields after seed(42)
    all_simulations,      \* line 181
    sim_balance,          \* line 184
    sim_path,             \* line 185
    sim_array,            \* line 193
    pct,                  \* lines 196-202: p5 .. p95
    avg,                  \* line 203
    final_balances,       \* line 206
    total_return,         \* line 214
    prob_positive,        \* line 300
    prob_double,          \* line 301
    vs_base,              \* lines 367-372
    prev                  \* history: what the run before produced, if it had these inputs

inputs == <<initial_balance, annual_return, years, annual_contribution, volatility, simulations>>
projector == <<year, balance, total_contributions, data, total_invested>>
simulator == <<all_simulations, sim_balance, sim_path>>
aggregates == <<sim_array, pct, avg, final_balances>>
cards == <<total_return, prob_positive, prob_double, vs_base>>
vars == <<inputs, pc, projector, rng, stream, simulator, aggregates, cards, prev>>

----------------------------------------------------------------------------
(* Bounds of the model *)

\* Largest number of years the full pipeline is explored with (the slider allows 50).
MaxYears == 2
\* Largest number of years the projector alone is explored with.
MaxProjYears == 10
\* Period after which the modelled generator stream repeats.
StreamLen == 4

(* Program constants *)

\* min_value and step of the "Number of Simulations" slider.
MinSimulations == 100
\* max_value and default value of the volatility slider.
MaxVolatility == 40
DefaultVolatility == 15

Dollars(d) == d * 1000

\* Deviates (in standard deviations) a draw may take.
ZValues == {-3, 0, 3}
Streams == [1..StreamLen -> ZValues]

InitialBalances == {0, Dollars(100)}
AnnualReturns == {7}
Contributions == {0, Dollars(50)}
Volatilities == {DefaultVolatility, MaxVolatility}
SimulationCounts == {MinSimulations}

ProjInitialBalances == {0, Dollars(10000)}
ProjAnnualReturns == {0, 7, 20}
ProjContributions == {0, Dollars(2000)}

----------------------------------------------------------------------------
(* Arithmetic *)

Max(a, b) == IF a >= b THEN a ELSE b

\* b * f / 100, rounded down, without forming b * f.
Scale(b, f) == (b \div 100) * f + ((b % 100) * f) \div 100

\* rate = annual_return / 100: kept in percent.
Rate(ar) == ar

GrowNoPrincipal(b, r) == Scale(b, r)

\* balance * (1 + rate)
Grow(b, r) == Scale(b, 100 + r)

WithdrawContribution(b, c) == b - c

\* balance += annual_contribution
AddContribution(b, c) == b + c

\* round(x, 2): to the nearest cent, a tie to the even cent.
Round2(x) ==
    LET q == x \div 10
        r == x % 10
    IN  IF r < 5 THEN 10 * q
        ELSE IF r > 5 THEN 10 * (q + 1)
        ELSE IF q % 2 = 0 THEN 10 * q ELSE 10 * (q + 1)

RangeShort(y, n) == y < n

\* y is still in range(1, n + 1)
InRange(y, n) == y <= n

NoFloor(x) == x

\* max(sim_balance, 0)
Floor0(x) == Max(x, 0)

----------------------------------------------------------------------------
(* numpy's global generator *)

NoReseed(state) == state

\* np.random.seed(42): the generator restarts at the head of the stream of seed 42.
NpRandomSeed(state) == 0

\* np.random.normal(loc, scale) = loc + scale * z, z the next standard deviate.
NpRandomNormal(loc, scale, state) == loc + scale * stream[state + 1]

NpRandomAdvance(state) == (state + 1) % StreamLen

----------------------------------------------------------------------------
(* Statistics *)

Column(m, j) == [i \in 1..Len(m) |-> m[i][j]]

Unsorted(a) == a

SortColumn(a) == SortSeq(a, LAMBDA x, y : x < y)

\* np.percentile(a, q): linear interpolation between the two nearest order statistics.
Percentile(a, q) ==
    LET s == SortColumn(a)
        num == q * (Len(a) - 1)
        lo == num \div 100
        g == num % 100
    IN  IF g = 0 THEN s[lo + 1]
        ELSE s[lo + 1] + ((s[lo + 2] - s[lo + 1]) * g) \div 100

PercentileCurve(m, q, n) == [j \in 1..n |-> Percentile(Column(m, j), q)]

RECURSIVE SumSeq(_, _)
SumSeq(a, i) == IF i = 0 THEN 0 ELSE a[i] + SumSeq(a, i - 1)

\* np.mean(a)
Mean(a) == SumSeq(a, Len(a)) \div Len(a)

CountAbove(a, t) == Cardinality({i \in 1..Len(a) : a[i] > t})

\* np.mean(a > t) * 100, in hundredths of a percent.
PercentAbove(a, t) == (CountAbove(a, t) * 10000) \div Len(a)

\* prob_positive
ProbPositive(a, ti) == PercentAbove(a, ti)

ProbDoubleOfBalances(a, ti) == PercentAbove([i \in 1..Len(a) |-> 2 * a[i]], ti)

\* prob_double
ProbDouble(a, ti) == PercentAbove(a, ti * 2)

\* ((x / balance) - 1) * 100, in percent.
VsBase(x, b) == (x * 100) \div b - 100

----------------------------------------------------------------------------
(* The script *)

NoPct == [p5 |-> <<>>, p10 |-> <<>>, p25 |-> <<>>, p50 |-> <<>>,
          p75 |-> <<>>, p90 |-> <<>>, p95 |-> <<>>]

\* Lines 140-155: the widgets' values, then the projector's variables.
Start(ib, ar, yr, ac, vo, si) ==
    /\ initial_balance = ib
    /\ annual_return = ar
    /\ years = yr
    /\ annual_contribution = ac
    /\ volatility = vo
    /\ simulations = si
    /\ pc = "det"
    /\ year = 1
    /\ balance = ib
    /\ total_contributions = 0
    /\ data = <<>>
    /\ total_invested = 0
    /\ all_simulations = <<>>
    /\ sim_balance = 0
    /\ sim_path = <<>>
    /\ sim_array = <<>>
    /\ pct = NoPct
    /\ avg = <<>>
    /\ final_balances = <<>>
    /\ total_return = 0
    /\ prob_positive = 0
    /\ prob_double = 0
    /\ vs_base = <<>>

Init ==
    /\ \E ib \in InitialBalances, ar \in AnnualReturns, yr \in 1..MaxYears,
          ac \in Contributions, vo \in Volatilities, si \in SimulationCounts :
          Start(ib, ar, yr, ac, vo, si)
    /\ stream \in Streams
    /\ rng \in 0..(StreamLen - 1)
    /\ prev = {}

\* Lines 157-173: one year of the base case.
DetStep ==
    /\ pc = "det"
    /\ InRange(year, years)
    /\ LET b == AddContribution(balance, annual_contribution)
           tc == total_contributions + annual_contribution
           new_balance == Grow(b, Rate(annual_return))
           annual_gain == new_balance - b
           total_gain == new_balance - (initial_balance + tc)
           ti == initial_balance + tc
       IN  /\ data' = Append(data,
                  [Year |-> year,
                   Balance |-> Round2(new_balance),
                   AnnualGain |-> Round2(annual_gain),
                   TotalGain |-> Round2(total_gain),
                   TotalContributed |-> Round2(tc),
                   InitialPlusContributions |-> Round2(ti),
                   MarketGains |-> Round2(total_gain)])
           /\ total_contributions' = tc
           /\ total_invested' = ti
           /\ balance' = new_balance
    /\ year' = year + 1
    /\ UNCHANGED <<inputs, pc, rng, stream, simulator, aggregates, cards, prev>>

\* Lines 175-181: the loop is exhausted; the generator is seeded.
DetDone ==
    /\ pc = "det"
    /\ ~InRange(year, years)
    /\ total_invested' = initial_balance + total_contributions
    /\ rng' = NpRandomSeed(rng)
    /\ all_simulations' = <<>>
    /\ pc' = "mc"
    /\ UNCHANGED <<inputs, year, balance, total_contributions, data, stream,
                   sim_balance, sim_path, aggregates, cards, prev>>

\* Lines 183-185: a new path.
McPath ==
    /\ pc = "mc"
    /\ Len(all_simulations) < simulations
    /\ sim_balance' = initial_balance
    /\ sim_path' = <<>>
    /\ year' = 1
    /\ pc' = "mc_year"
    /\ UNCHANGED <<inputs, balance, total_contributions, data, total_invested,
                   rng, stream, all_simulations, aggregates, cards, prev>>

\* Lines 186-190: one year of a path.
McYear ==
    /\ pc = "mc_year"
    /\ InRange(year, years)
    /\ LET b == sim_balance + annual_contribution
           annual_rate == NpRandomNormal(Rate(annual_return), volatility, rng)
           grown == Grow(b, annual_rate)
       IN  /\ sim_balance' = grown
           /\ sim_path' = Append(sim_path, Floor0(grown))
    /\ rng' = NpRandomAdvance(rng)
    /\ year' = year + 1
    /\ UNCHANGED <<inputs, pc, balance, total_contributions, data, total_invested,
                   stream, all_simulations, aggregates, cards, prev>>

\* Line 191: the path is complete.
McPathDone ==
    /\ pc = "mc_year"
    /\ ~InRange(year, years)
    /\ all_simulations' = Append(all_simulations, sim_path)
    /\ pc' = "mc"
    /\ UNCHANGED <<inputs, projector, rng, stream, sim_balance, sim_path,
                   aggregates, cards, prev>>

\* Lines 193-206: the matrix and its per-year statistics.
Aggregate ==
    /\ pc = "mc"
    /\ ~(Len(all_simulations) < simulations)
    /\ sim_array' = all_simulations
    /\ pct' = [p5  |-> PercentileCurve(all_simulations, 5, years),
               p10 |-> PercentileCurve(all_simulations, 10, years),
               p25 |-> PercentileCurve(all_simulations, 25, years),
               p50 |-> PercentileCurve(all_simulations, 50, years),
               p75 |-> PercentileCurve(all_simulations, 75, years),
               p90 |-> PercentileCurve(all_simulations, 90, years),
               p95 |-> PercentileCurve(all_simulations, 95, years)]
    /\ avg' = [j \in 1..years |-> Mean(Column(all_simulations, j))]
    /\ final_balances' = Column(all_simulations, years)
    /\ pc' = "summary"
    /\ UNCHANGED <<inputs, projector, rng, stream, simulator, cards, prev>>

\* Line 214 with total_invested == 0.0: float division raises ZeroDivisionError,
\* nothing catches it, the run ends there.
SummaryRaises ==
    /\ pc = "summary"
    /\ total_invested = 0
    /\ pc' = "ZeroDivisionError"
    /\ UNCHANGED <<inputs, projector, rng, stream, simulator, aggregates, cards, prev>>

\* Lines 209-376: the summary cards, the outcome odds and the overall table.
Render ==
    /\ pc = "summary"
    /\ total_invested # 0
    /\ total_return' = ((balance - total_invested) * 100) \div total_invested
    /\ prob_positive' = ProbPositive(final_balances, total_invested)
    /\ prob_double' = ProbDouble(final_balances, total_invested)
    /\ vs_base' = << VsBase(Percentile(final_balances, 5), balance),
                     VsBase(Percentile(final_balances, 25), balance),
                     VsBase(Percentile(final_balances, 50), balance),
                     VsBase(Mean(final_balances), balance),
                     VsBase(Percentile(final_balances, 75), balance),
                     VsBase(Percentile(final_balances, 95), balance) >>
    /\ pc' = "done"
    /\ UNCHANGED <<inputs, projector, rng, stream, simulator, aggregates, prev>>

Ended == pc \in {"done", "ZeroDivisionError"}

Produced == [matrix |-> sim_array, pct |-> pct, avg |-> avg,
             final_balances |-> final_balances,
             prob_positive |-> prob_positive, prob_double |-> prob_double,
             ended |-> pc]

\* The primed counterpart of Start: a rerun executes the script from the top.
Restart(ib, ar, yr, ac, vo, si) ==
    /\ initial_balance' = ib
    /\ annual_return' = ar
    /\ years' = yr
    /\ annual_contribution' = ac
    /\ volatility' = vo
    /\ simulations' = si
    /\ pc' = "det"
    /\ year' = 1
    /\ balance' = ib
    /\ total_contributions' = 0
    /\ data' = <<>>
    /\ total_invested' = 0
    /\ all_simulations' = <<>>
    /\ sim_balance' = 0
    /\ sim_path' = <<>>
    /\ sim_array' = <<>>
    /\ pct' = NoPct
    /\ avg' = <<>>
    /\ final_balances' = <<>>
    /\ total_return' = 0
    /\ prob_positive' = 0
    /\ prob_double' = 0
    /\ vs_base' = <<>>

\* An interaction that leaves the six inputs alone (the theme radio, line 11).
Rerun ==
    /\ Ended
    /\ Restart(initial_balance, annual_return, years, annual_contribution,
               volatility, simulations)
    /\ prev' = {Produced}
    /\ UNCHANGED <<rng, stream>>

\* An interaction that changes an input (lines 140-149).
InputChanged ==
    /\ Ended
    /\ \E ib \in InitialBalances, ar \in AnnualReturns, yr \in 1..MaxYears,
          ac \in Contributions, vo \in Volatilities, si \in SimulationCounts :
          /\ <<ib, ar, yr, ac, vo, si>> # inputs
          /\ Restart(ib, ar, yr, ac, vo, si)
    /\ prev' = {}
    /\ UNCHANGED <<rng, stream>>

Next ==
    \/ DetStep
    \/ DetDone
    \/ McPath
    \/ McYear
    \/ McPathDone
    \/ Aggregate
    \/ SummaryRaises
    \/ Render
    \/ Rerun
    \/ InputChanged

Spec == Init /\ [][Next]_vars

----------------------------------------------------------------------------
(* The projector alone, over a wider range of inputs *)

InitProjector ==
    /\ \E ib \in ProjInitialBalances, ar \in ProjAnnualReturns, yr \in 1..MaxProjYears,
          ac \in ProjContributions :
          Start(ib, ar, yr, ac, MaxVolatility, MinSimulations)
    /\ stream \in Streams
    /\ rng = 0
    /\ prev = {}

ProjectorDone == pc = "det" /\ ~InRange(year, years)

\* The projection is read (line 176) and the inputs change.
ProjectAgain ==
    /\ ProjectorDone
    /\ \E ib \in ProjInitialBalances, ar \in ProjAnnualReturns, yr \in 1..MaxProjYears,
          ac \in ProjContributions :
          Restart(ib, ar, yr, ac, MaxVolatility, MinSimulations)
    /\ UNCHANGED <<rng, stream, prev>>

NextProjector == DetStep \/ ProjectAgain

SpecProjector == InitProjector /\ [][NextProjector]_vars

----------------------------------------------------------------------------
(* Properties *)

Abs(x) == IF x < 0 THEN -x ELSE x

MatrixBuilt == pc \in {"summary", "done", "ZeroDivisionError"}

\* C1: in the simulator the balance that enters the next year of a path is the
\* value just recorded for the year before, and so is never negative.
C1_CarriedBalanceIsRecorded ==
    (pc = "mc_year" /\ Len(sim_path) > 0 /\ InRange(year, years))
        => /\ sim_balance = sim_path[Len(sim_path)]
           /\ sim_balance >= 0

\* C2: with initial_balance = 0 and annual_contribution = 0 the run ends in the
\* DivisionUndefined outcome, not in an uncaught exception and not in a value.
C2_ZeroInvestedEndsDivisionUndefined ==
    (Ended /\ initial_balance = 0 /\ annual_contribution = 0)
        => pc = "DivisionUndefined"

Scenario ==
    /\ initial_balance = Dollars(10000)
    /\ annual_return = 7
    /\ years = 10
    /\ annual_contribution = Dollars(2000)

\* C3 as stated: the scenario's base case ends within 100 of 39,930.
C3_ScenarioEndsNear39930 ==
    (Scenario /\ ProjectorDone) => Abs(balance - Dollars(39930)) <= Dollars(100)

\* C3 as amended: the scenario's base case ends within 1 of 49,238.71, and that is
\* the balance of the last record.
C3_ScenarioEndsNear49239 ==
    (Scenario /\ ProjectorDone)
        => /\ Abs(balance - 49238710) <= Dollars(1)
           /\ Abs(data[Len(data)].Balance - 49238710) <= Dollars(1)

C3_Witness == Scenario /\ ProjectorDone /\ Len(data) = 10

\* C4: the probability of profit and the probability of doubling are fractions
\* (here in hundredths of a percent, 0 .. 10000), and doubling is no likelier
\* than profit.
C4_ProbabilitiesOrdered ==
    pc = "done"
        => /\ 0 <= prob_double
           /\ prob_double <= prob_positive
           /\ prob_positive <= 10000

C4_Witness ==
    /\ pc = "done"
    /\ 0 < prob_double
    /\ prob_double < prob_positive
    /\ prob_positive < 10000

\* C5: a run with the inputs of the run before it produces the same matrix and the
\* same statistics, and the first year of path i is computed from draw number
\* (i - 1) * years of the seeded stream, whatever the generator held before.
C5_SameInputsSameResult ==
    MatrixBuilt
        => /\ \A p \in prev : (Ended => Produced = p) /\ p.matrix = sim_array
           /\ \A i \in 1..Len(sim_array) :
                 sim_array[i][1] =
                     Floor0(Grow(initial_balance + annual_contribution,
                                 NpRandomNormal(Rate(annual_return), volatility,
                                                ((i - 1) * years) % StreamLen)))

C5_Witness ==
    /\ pc = "done"
    /\ prev # {}
    /\ \E i, k \in 1..Len(sim_array) : sim_array[i] # sim_array[k]

\* C7: the matrix has simulations rows of years entries, none negative.
C7_MatrixShapeAndSign ==
    MatrixBuilt
        => /\ Len(sim_array) = simulations
           /\ \A i \in 1..Len(sim_array) :
                 /\ Len(sim_array[i]) = years
                 /\ \A j \in 1..years : sim_array[i][j] >= 0

\* A return below -100% was drawn on a positive balance and recorded as 0.
C7_Witness ==
    /\ MatrixBuilt
    /\ initial_balance > 0
    /\ \E k \in 1..StreamLen : Rate(annual_return) + volatility * stream[k] < -100
    /\ \E i \in 1..Len(sim_array) : sim_array[i][1] = 0

\* C8: the balances of the base-case records never decrease from one year to the
\* next.
C8_BalancesNonDecreasing ==
    \A i \in 1..(Len(data) - 1) : data[i].Balance <= data[i + 1].Balance

\* Two records, the second larger, captured from a balance that rounding changed.
C8_Witness ==
    /\ Len(data) >= 2
    /\ data[1].Balance < data[2].Balance
    /\ balance # Round2(balance)

\* C9: the projector produces exactly years records, numbered 1, 2, ... in order.
C9_OneRecordPerYear ==
    /\ \A i \in 1..Len(data) : data[i].Year = i
    /\ ProjectorDone => Len(data) = years

C9_Witness ==
    /\ ProjectorDone
    /\ Len(data) >= 5
    /\ data[5].Year = 5

PctOrdered(j) ==
    /\ pct.p5[j] <= pct.p10[j]
    /\ pct.p10[j] <= pct.p25[j]
    /\ pct.p25[j] <= pct.p50[j]
    /\ pct.p50[j] <= pct.p75[j]
    /\ pct.p75[j] <= pct.p90[j]
    /\ pct.p90[j] <= pct.p95[j]

\* C10: in every year column p5 <= p10 <= p25 <= p50 <= p75 <= p90 <= p95.
C10_PercentilesOrdered ==
    MatrixBuilt => \A j \in 1..years : PctOrdered(j)

\* A column whose quartiles differ, the 25th percentile interpolated between two
\* order statistics.
C10_Witness ==
    /\ MatrixBuilt
    /\ \E j \in 1..years :
          /\ pct.p10[j] < pct.p25[j]
          /\ pct.p25[j] < pct.p50[j]
          /\ pct.p50[j] < pct.p75[j]
          /\ \A i \in 1..Len(sim_array) : sim_array[i][j] # pct.p25[j]

====
